---- MODULE Spec2Model ----
(***************************************************************************)
(* A model of ss_utilities: the extension/content file scanner             *)
(* (scan_files.py: main, parse_options, scan_files, find_in_files,         *)
(* myprint, print_results) and the interactive prompt                      *)
(* (generic_tools.py: query_yes_no).                                       *)
(*                                                                         *)
(* Text is a sequence of one-character strings, bytes are a sequence of    *)
(* numbers, a file name is a sequence of characters and a path is a        *)
(* sequence of names below the filesystem root.                            *)
(***************************************************************************)
EXTENDS Integers, Sequences, FiniteSets, TLC

\* ------------------------------------------------------------------ bounds

\* longest file content, in bytes
MaxContentLen == 2
\* longest --find / --replace string, in characters
MaxNeedleLen == 1
\* longest file list handed to find_in_files directly
MaxFiles == 2
\* longest list of --extension values
MaxExts == 2
\* nesting depth of the directory tree below the root
MaxDepth == 2
\* number of answers the user types at the yes/no prompt
MaxInputs == 2
\* largest number of months added or subtracted by monthdelta
MaxDelta == 13

\* Python's optional values: None is the empty sequence, a value x is <<x>>
None == <<>>

Some(x) == <<x>>

\* ------------------------------------------------------- sequences helpers

Range(s) == {s[i] : i \in 1..Len(s)}

SeqsUpTo(S, n) == UNION {[1..k -> S] : k \in 0..n}

RECURSIVE Flatten(_)
Flatten(ss) == IF ss = <<>> THEN <<>> ELSE Head(ss) \o Flatten(Tail(ss))

IsPrefix(p, s) == Len(p) <= Len(s) /\ SubSeq(s, 1, Len(p)) = p

\* ------------------------------------------------------------ bytes, text

Chars == {"a", "b"}

Ord(c) == IF c = "a" THEN 97 ELSE 98

\* str.encode("utf-8") on ASCII text: one byte per character
Encode(s) == [i \in 1..Len(s) |-> Ord(s[i])]

Bytes == {Ord(c) : c \in Chars}

\* needle occurs in content at index i (1-based)
OccursAt(n, c, i) ==
    /\ i + Len(n) - 1 <= Len(c)
    /\ \A j \in 1..Len(n) : c[i + j - 1] = n[j]

\* `find in content` on bytes: substring test; the empty needle is in everything
Contains(n, c) == \E i \in 1..(Len(c) + 1) : OccursAt(n, c, i)

RECURSIVE ReplaceFrom(_, _, _, _)
ReplaceFrom(c, n, r, i) ==
    IF i > Len(c) THEN <<>>
    ELSE IF OccursAt(n, c, i) THEN r \o ReplaceFrom(c, n, r, i + Len(n))
    ELSE <<c[i]>> \o ReplaceFrom(c, n, r, i + 1)

RECURSIVE Interleave(_, _)
Interleave(c, r) == IF c = <<>> THEN r ELSE r \o <<Head(c)>> \o Interleave(Tail(c), r)

ReplaceFirst(c, n, r) ==
    IF n = <<>> THEN r \o c
    ELSE IF \E i \in 1..Len(c) : OccursAt(n, c, i)
         THEN LET i == CHOOSE k \in 1..Len(c) :
                          OccursAt(n, c, k) /\ \A m \in 1..(k - 1) : ~OccursAt(n, c, m)
              IN SubSeq(c, 1, i - 1) \o r \o SubSeq(c, i + Len(n), Len(c))
         ELSE c

\* bytes.replace(find, replace): every occurrence, leftmost first, non-overlapping;
\* an empty needle inserts the replacement before every byte and at the end
Replace(c, n, r) == IF n = <<>> THEN Interleave(c, r) ELSE ReplaceFrom(c, n, r, 1)

\* ------------------------------------------------------------- file system

NameA == <<"a", ".", "t">>
NameN == <<"n">>
NameH == <<".", "h", ".", "t">>
NameB == <<"b", ".", "c">>
NameX == <<"x">>
DirS == <<"s">>
DirG == <<".", "g">>

RECURSIVE SPath(_)
SPath(k) == IF k = 0 THEN <<>> ELSE <<DirS>> \o SPath(k - 1)

\* the directories of the tree: root, s, s/s, ... and the hidden directory .g
DirOrder == [k \in 1..(MaxDepth + 1) |-> SPath(k - 1)] \o << <<DirG>> >>

Dirs == Range(DirOrder)

\* the files that may exist, in directory-listing order
FileOrder ==
    << <<NameA>>, <<NameN>>, <<NameH>>, <<DirS, NameB>>,
       SPath(MaxDepth) \o <<NameA>>, <<DirG, NameA>> >>

FileUniverse == Range(FileOrder)

EntryOrder == FileOrder \o DirOrder

Absent == <<-1>>

Contents == SeqsUpTo(Bytes, MaxContentLen)

Parent(p) == SubSeq(p, 1, Len(p) - 1)

Name(p) == p[Len(p)]

\* a leading period hides a name from glob (glob._ishidden)
IsHidden(name) == Len(name) > 0 /\ name[1] = "."

\* fnmatch of a name against a pattern of literal characters and `*`
RECURSIVE Match(_, _)
Match(pat, s) ==
    IF pat = <<>> THEN s = <<>>
    ELSE IF Head(pat) = "*"
         THEN Match(Tail(pat), s) \/ (s # <<>> /\ Match(pat, Tail(s)))
         ELSE s # <<>> /\ Head(s) = Head(pat) /\ Match(Tail(pat), Tail(s))

\* f"*.{extension}"
Pattern(ext) == <<"*", ".">> \o ext

\* ------------------------------------------------------------------- state

VARIABLES
    disk,           \* file path -> content (bytes), or Absent
    disk0,          \* the disk when the operation started (history)
    entry,          \* the operation called: "main", "scan_files", "find_in_files"
    path,           \* --path / scan_files(path)
    extensions,     \* --extension / scan_files(extensions): list of texts
    recursive,      \* --recursive
    find,           \* --find: None or Some(text)
    replace,        \* --replace: None or Some(text)
    outfile,        \* --outfile: None or Some(path)
    optQuiet,       \* opts.quiet
    quiet,          \* the module's global `quiet`
    main_quiet,     \* the name `quiet` local to main()
    files,          \* scan_files: the enumerated list; find_in_files: its argument
    find_,          \* find encoded to bytes: None or Some(bytes)
    replace_,       \* replace encoded to bytes: None or Some(bytes)
    results,        \* find_in_files: results
    i,              \* find_in_files: position in files of the loop (1-based)
    content,        \* find_in_files: content read from files[i]
    found,          \* find_in_files: found
    stdout,         \* lines printed, in order
    outfileContent, \* None until the output file is written, then Some(lines)
    io,             \* file-system calls made, in order (history)
    pc,             \* position of the scanner
    qDefault,       \* query_yes_no: default, None or Some(string)
    qInputs,        \* query_yes_no: what the user will type, line by line
    qRead,          \* query_yes_no: number of lines read by input()
    qOut,           \* query_yes_no: writes to sys.stdout, in order
    qRet,           \* query_yes_no: None or Some(returned boolean)
    qPc,            \* query_yes_no: position
    mdDt,           \* monthdelta: dt, a datetime
    mdDelta,        \* monthdelta: delta
    mdRet,          \* monthdelta: None or Some(returned datetime)
    mdPc            \* monthdelta: position

scanVars ==
    <<disk, disk0, entry, path, extensions, recursive, find, replace, outfile, optQuiet,
      quiet, main_quiet, files, find_, replace_, results, i, content, found, stdout,
      outfileContent, io, pc>>

queryVars == <<qDefault, qInputs, qRead, qOut, qRet, qPc>>

monthVars == <<mdDt, mdDelta, mdRet, mdPc>>

vars == <<scanVars, queryVars, monthVars>>

inputVars == <<disk0, entry, path, extensions, recursive, find, replace, outfile, optQuiet>>

\* ------------------------------------------------------- directory listing

Present(p) == p \in Dirs \/ (p \in FileUniverse /\ disk[p] # Absent)

\* os.path.isdir
IsDir(p) == p \in Dirs

\* the entries of directory d, files and directories (os.scandir); empty when d
\* is missing or is no directory (glob._listdir swallows the OSError)
Listdir(d) ==
    LET In(p) == Len(p) > 0 /\ Parent(p) = d /\ Present(p)
    IN SelectSeq(EntryOrder, In)

\* glob._glob1: the non-hidden entries of d whose name matches the pattern
Glob1(d, pat) ==
    LET Ok(p) == ~IsHidden(Name(p)) /\ Match(pat, Name(p))
    IN SelectSeq(Listdir(d), Ok)

\* glob._glob2 for `root/**`: root itself, then every directory below it that is
\* reached without passing through a hidden directory (glob._rlistdir)
RecursiveDirs(root) ==
    LET Under(d) ==
            /\ IsPrefix(root, d)
            /\ \A k \in (Len(root) + 1)..Len(d) : ~IsHidden(d[k])
    IN SelectSeq(DirOrder, Under)

GlobFlat(root, ext, rec) == Glob1(root, Pattern(ext))

\* glob.glob(os.path.join(path, f"*.{extension}"), recursive=recursive), where path
\* has had "**" joined to it when recursive
Glob(root, ext, rec) ==
    IF rec
    THEN LET ds == RecursiveDirs(root)
         IN Flatten([k \in 1..Len(ds) |-> Glob1(ds[k], Pattern(ext))])
    ELSE Glob1(root, Pattern(ext))

\* ------------------------------------------------------------------ output

Msg(kind, n, file) == [kind |-> kind, n |-> n, file |-> file]

\* myprint: print unless the global quiet is set
MyPrint(out, msg) == IF ~quiet THEN Append(out, msg) ELSE out

ResultLines(rs) == [k \in 1..Len(rs) |-> Msg("result", 0, rs[k])]

Event(op, file) == [op |-> op, file |-> file]

\* ----------------------------------------------------------------- scanner

OutPath == <<NameX>>

F1 == <<NameA>>

F2 == <<DirS, NameB>>

OptTexts == {None} \cup {Some(t) : t \in SeqsUpTo(Chars, MaxNeedleLen)}

EncodeOpt(t) == IF t = None THEN None ELSE Some(Encode(t[1]))

Datetime(yy, mm, dd, hh, mi, ss) ==
    [year |-> yy, month |-> mm, day |-> dd, hour |-> hh, minute |-> mi, second |-> ss]

MonthIdle ==
    /\ mdDt = Datetime(1, 1, 1, 0, 0, 0)
    /\ mdDelta = 0
    /\ mdRet = None
    /\ mdPc = "idle"

QueryIdle ==
    /\ qDefault = None
    /\ qInputs = <<>>
    /\ qRead = 0
    /\ qOut = <<>>
    /\ qRet = None
    /\ qPc = "idle"

\* find_in_files(files, find_, replace_) called on a file list of the caller's
\* choosing (scan_files line 100), every listed file existing, the results going
\* to an output file; the second file is the shorter one
InitFind ==
    /\ entry = "find_in_files"
    /\ \E c1 \in Contents, c2 \in SeqsUpTo(Bytes, MaxContentLen - 1) :
           disk = [p \in FileUniverse |->
                       IF p = F1 THEN c1 ELSE IF p = F2 THEN c2 ELSE Absent]
    /\ disk0 = disk
    /\ path = <<>>
    /\ extensions = <<>>
    /\ recursive = FALSE
    /\ find \in OptTexts
    /\ replace \in OptTexts
    /\ outfile = Some(OutPath)
    /\ optQuiet = TRUE
    /\ quiet = TRUE
    /\ main_quiet = TRUE
    /\ files \in SeqsUpTo({F1, F2}, MaxFiles)
    /\ find_ = EncodeOpt(find)
    /\ replace_ = EncodeOpt(replace)
    /\ results = <<>>
    /\ i = 0
    /\ content = <<>>
    /\ found = FALSE
    /\ stdout = <<>>
    /\ outfileContent = None
    /\ io = <<>>
    /\ pc = "find"
    /\ QueryIdle
    /\ MonthIdle

ReturnsNothing(fs) == <<>>

\* line 70: `return files`
Unfiltered(fs) == fs

\* lines 69-70: no needle, the list is returned as it is
FindEarlyReturn ==
    /\ pc = "find"
    /\ find_ = None
    /\ results' = Unfiltered(files)
    /\ pc' = "emit"
    /\ UNCHANGED <<disk, inputVars, quiet, main_quiet, files, find_, replace_, i, content,
                   found, stdout, outfileContent, io, queryVars, monthVars>>

\* line 71: results = []
FindEnter ==
    /\ pc = "find"
    /\ find_ # None
    /\ results' = <<>>
    /\ i' = 1
    /\ pc' = "open"
    /\ UNCHANGED <<disk, inputVars, quiet, main_quiet, files, find_, replace_, content,
                   found, stdout, outfileContent, io, queryVars, monthVars>>

RetainOnce(rs, file, fnd) == IF fnd /\ file \notin Range(rs) THEN Append(rs, file) ELSE rs

\* lines 77-78: a file whose content holds the needle is appended to results
Retain(rs, file, fnd) == IF fnd THEN Append(rs, file) ELSE rs

RewriteAlways(fnd, rep) == rep # None

\* line 80: `if found and replace is not None`
ShouldRewrite(fnd, rep) == fnd /\ rep # None

\* lines 72-80: open files[i] "r+b", read it all, test for the needle
FindRead ==
    /\ pc = "open"
    /\ i <= Len(files)
    /\ disk[files[i]] # Absent
    /\ LET file == files[i]
           c == disk[file]
           f == Contains(find_[1], c)
       IN /\ content' = c
          /\ found' = f
          /\ results' = Retain(results, file, f)
          /\ io' = io \o <<Event("open r+b", file), Event("read", file)>>
          /\ IF ShouldRewrite(f, replace_)
             THEN pc' = "write" /\ i' = i
             ELSE pc' = "open" /\ i' = i + 1
    /\ UNCHANGED <<disk, inputVars, quiet, main_quiet, files, find_, replace_, stdout,
                   outfileContent, queryVars, monthVars>>

ContinueAfterError(resume) == resume

\* an exception raised inside find_in_files is caught nowhere: it leaves
\* find_in_files (line 74 or 81), scan_files (line 100) and main (line 108)
OnIOError(resume) == "raised"

\* line 74: open(file, "r+b") raises (missing file, permission, a directory)
FindReadFail ==
    /\ pc = "open"
    /\ i <= Len(files)
    /\ io' = io \o <<Event("open r+b", files[i]), Event("OSError", files[i])>>
    /\ pc' = OnIOError("open")
    /\ i' = IF pc' = "raised" THEN i ELSE i + 1
    /\ UNCHANGED <<disk, inputVars, quiet, main_quiet, files, find_, replace_, results,
                   content, found, stdout, outfileContent, queryVars, monthVars>>

\* lines 81-82: open files[i] "w+b" and write the content with the needle replaced
FindWrite ==
    /\ pc = "write"
    /\ LET file == files[i]
       IN /\ disk' = [disk EXCEPT ![file] = Replace(content, find_[1], replace_[1])]
          /\ io' = io \o <<Event("open w+b", file), Event("write", file)>>
    /\ i' = i + 1
    /\ pc' = "open"
    /\ UNCHANGED <<inputVars, quiet, main_quiet, files, find_, replace_, results, content,
                   found, stdout, outfileContent, queryVars, monthVars>>

\* line 81: open(file, "w+b") raises, the file is not truncated
FindWriteOpenFail ==
    /\ pc = "write"
    /\ io' = io \o <<Event("open w+b", files[i]), Event("OSError", files[i])>>
    /\ pc' = OnIOError("open")
    /\ i' = IF pc' = "raised" THEN i ELSE i + 1
    /\ UNCHANGED <<disk, inputVars, quiet, main_quiet, files, find_, replace_, results,
                   content, found, stdout, outfileContent, queryVars, monthVars>>

\* line 82: the write raises after "w+b" truncated the file: a part is written
FindWriteFail ==
    /\ pc = "write"
    /\ LET file == files[i]
           new == Replace(content, find_[1], replace_[1])
       IN /\ \E k \in 0..(Len(new) - 1) :
                 disk' = [disk EXCEPT ![file] = SubSeq(new, 1, k)]
          /\ io' = io \o <<Event("open w+b", file), Event("write", file),
                           Event("OSError", file)>>
    /\ pc' = OnIOError("open")
    /\ i' = IF pc' = "raised" THEN i ELSE i + 1
    /\ UNCHANGED <<inputVars, quiet, main_quiet, files, find_, replace_, results, content,
                   found, stdout, outfileContent, queryVars, monthVars>>

\* line 83: return results
FindReturn ==
    /\ pc = "open"
    /\ i > Len(files)
    /\ pc' = "emit"
    /\ UNCHANGED <<disk, inputVars, quiet, main_quiet, files, find_, replace_, results, i,
                   content, found, stdout, outfileContent, io, queryVars, monthVars>>

\* scan_files lines 101-103 and print_results: the count message, then the
\* result list on standard output or in the output file
PrintResults ==
    /\ pc = "emit"
    /\ LET out1 == IF find # None
                   THEN MyPrint(stdout, Msg("contain", Len(results), <<>>))
                   ELSE stdout
       IN IF outfile = None
          THEN /\ stdout' = out1 \o ResultLines(results)
               /\ UNCHANGED outfileContent
          ELSE /\ outfileContent' = Some(results)
               /\ stdout' = Append(out1, Msg("printed to", 0, outfile[1]))
    /\ pc' = "done"
    /\ UNCHANGED <<disk, inputVars, quiet, main_quiet, files, find_, replace_, results, i,
                   content, found, io, queryVars, monthVars>>

NextFind ==
    \/ FindEarlyReturn
    \/ FindEnter
    \/ FindRead
    \/ FindReadFail
    \/ FindWrite
    \/ FindWriteOpenFail
    \/ FindWriteFail
    \/ FindReturn
    \/ PrintResults

Spec == InitFind /\ [][NextFind]_vars

\* ------------------------------------------------------ main and scan_files

Exts == {<<"t">>, <<"c">>, <<"*">>}

\* a.t files hold "a", every other file holds "b"
BaseContent(p) == IF Name(p) = NameA THEN <<97>> ELSE <<98>>

\* the command line (entry = "main", a fresh process: the global quiet is True,
\* line 16) or a call of scan_files from importing code, which may have set the
\* module's quiet; any set of the tree's files exists
InitScan ==
    /\ entry \in {"main", "scan_files"}
    /\ \E S \in SUBSET FileUniverse :
           disk = [p \in FileUniverse |-> IF p \in S THEN BaseContent(p) ELSE Absent]
    /\ disk0 = disk
    /\ path \in {<<>>, <<DirS>>, <<NameX>>, <<NameA>>}
    /\ extensions \in SeqsUpTo(Exts, MaxExts)
    /\ recursive \in BOOLEAN
    /\ \E fr \in {<<None, None>>, <<Some(<<"a">>), None>>, <<Some(<<"a">>), Some(<<"b">>)>>} :
           find = fr[1] /\ replace = fr[2]
    /\ outfile = None
    /\ optQuiet \in (IF entry = "main" THEN BOOLEAN ELSE {FALSE})
    /\ quiet \in (IF entry = "main" THEN {TRUE} ELSE BOOLEAN)
    /\ main_quiet = TRUE
    /\ files = <<>>
    /\ find_ = None
    /\ replace_ = None
    /\ results = <<>>
    /\ i = 0
    /\ content = <<>>
    /\ found = FALSE
    /\ stdout = <<>>
    /\ outfileContent = None
    /\ io = <<>>
    /\ pc = IF entry = "main" THEN "main" ELSE "scan"
    /\ QueryIdle
    /\ MonthIdle

\* parse_options.handle_options, lines 53-54: the path is no directory
ParseOptionsRaise ==
    /\ pc = "main"
    /\ ~IsDir(path)
    /\ io' = Append(io, Event("Exception", path))
    /\ pc' = "raised"
    /\ UNCHANGED <<disk, inputVars, quiet, main_quiet, files, find_, replace_, results, i,
                   content, found, stdout, outfileContent, queryVars, monthVars>>

\* main, lines 106-108: the options are valid; `quiet = opts.quiet` binds a name
\* local to main (main has no `global quiet`), then scan_files is called
Main ==
    /\ pc = "main"
    /\ IsDir(path)
    /\ main_quiet' = optQuiet
    /\ pc' = "scan"
    /\ UNCHANGED <<disk, inputVars, quiet, files, find_, replace_, results, i, content,
                   found, stdout, outfileContent, io, queryVars, monthVars>>

\* scan_files, lines 92-99: the message, one glob per extension with the results
\* concatenated, the message, the needle and the replacement encoded
ScanFiles ==
    /\ pc = "scan"
    /\ LET fs == Flatten([k \in 1..Len(extensions) |->
                              Glob(path, extensions[k], recursive)])
           out1 == MyPrint(stdout, Msg("scanning", 0, path))
       IN /\ files' = fs
          /\ stdout' = MyPrint(out1, Msg("found", Len(fs), <<>>))
    /\ io' = io \o [k \in 1..Len(extensions) |-> Event("glob", path)]
    /\ find_' = EncodeOpt(find)
    /\ replace_' = EncodeOpt(replace)
    /\ pc' = "find"
    /\ UNCHANGED <<disk, inputVars, quiet, main_quiet, results, i, content, found,
                   outfileContent, queryVars, monthVars>>

NextScan ==
    \/ ParseOptionsRaise
    \/ Main
    \/ ScanFiles
    \/ FindEarlyReturn
    \/ FindEnter
    \/ FindRead
    \/ FindReadFail
    \/ FindWrite
    \/ FindWriteOpenFail
    \/ FindWriteFail
    \/ FindReturn
    \/ PrintResults

SpecScan == InitScan /\ [][NextScan]_vars

\* ------------------------------------------------------------- query_yes_no

WordYes == <<"y", "e", "s">>
WordYe == <<"y", "e">>
WordY == <<"y">>
WordNo == <<"n", "o">>
WordN == <<"n">>

\* what the user may type on a line
InputLines ==
    { <<>>, <<"y">>, <<"Y", "E">>, <<"Y", "e", "s">>, <<"n", "o">>, <<"N">>,
      <<"x">>, <<"n", "o", "p", "e">> }

Defaults == {None, Some(WordYes), Some(WordNo), Some(WordY), Some(<<"Y", "e", "s">>)}

LowerChar(c) ==
    CASE c = "Y" -> "y"
      [] c = "E" -> "e"
      [] c = "S" -> "s"
      [] c = "N" -> "n"
      [] c = "O" -> "o"
      [] OTHER -> c

\* str.lower()
Lower(line) == [k \in 1..Len(line) |-> LowerChar(line[k])]

ValidKeysWhole == {WordYes, WordY, WordNo, WordN}

\* lines 179-180: valid = {"yes": True, "y": True, "ye": True, "no": False, "n": False}
ValidKeys == {WordYes, WordY, WordYe, WordNo, WordN}

Valid(key) == key \in {WordYes, WordY, WordYe}

InitQuery ==
    /\ qDefault \in Defaults
    /\ qInputs \in [1..MaxInputs -> InputLines]
    /\ qRead = 0
    /\ qOut = <<>>
    /\ qRet = None
    /\ qPc = "start"
    /\ entry = "query_yes_no"
    /\ disk = [p \in FileUniverse |-> Absent]
    /\ disk0 = disk
    /\ path = <<>>
    /\ extensions = <<>>
    /\ recursive = FALSE
    /\ find = None
    /\ replace = None
    /\ outfile = None
    /\ optQuiet = TRUE
    /\ quiet = TRUE
    /\ main_quiet = TRUE
    /\ files = <<>>
    /\ find_ = None
    /\ replace_ = None
    /\ results = <<>>
    /\ i = 0
    /\ content = <<>>
    /\ found = FALSE
    /\ stdout = <<>>
    /\ outfileContent = None
    /\ io = <<>>
    /\ pc = "idle"
    /\ MonthIdle

\* lines 181-188: the prompt is chosen, or the default is rejected
QueryStart ==
    /\ qPc = "start"
    /\ qPc' = IF qDefault \in {None, Some(WordYes), Some(WordNo)} THEN "prompt" ELSE "raised"
    /\ qOut' = IF qPc' = "raised" THEN <<"ValueError">> ELSE qOut
    /\ UNCHANGED <<scanVars, monthVars, qDefault, qInputs, qRead, qRet>>

\* line 190: sys.stdout.write(question + prompt)
QueryPrompt ==
    /\ qPc = "prompt"
    /\ qOut' = Append(qOut, "prompt")
    /\ qPc' = "input"
    /\ UNCHANGED <<scanVars, monthVars, qDefault, qInputs, qRead, qRet>>

\* lines 191-201: a line is read and lowered; the default or a valid answer is
\* returned, anything else is answered with the reminder and the loop goes round
QueryInput ==
    /\ qPc = "input"
    /\ qRead < Len(qInputs)
    /\ qRead' = qRead + 1
    /\ LET choice == Lower(qInputs[qRead + 1])
       IN IF qDefault # None /\ choice = <<>>
          THEN /\ qRet' = Some(Valid(qDefault[1]))
               /\ qPc' = "returned"
               /\ UNCHANGED qOut
          ELSE IF choice \in ValidKeys
               THEN /\ qRet' = Some(Valid(choice))
                    /\ qPc' = "returned"
                    /\ UNCHANGED qOut
               ELSE /\ qOut' = Append(qOut, "Please respond")
                    /\ qPc' = "prompt"
                    /\ UNCHANGED qRet
    /\ UNCHANGED <<scanVars, monthVars, qDefault, qInputs>>

\* line 192: input() at the end of standard input raises EOFError
QueryEOF ==
    /\ qPc = "input"
    /\ qRead = Len(qInputs)
    /\ qOut' = Append(qOut, "EOFError")
    /\ qPc' = "raised"
    /\ UNCHANGED <<scanVars, monthVars, qDefault, qInputs, qRead, qRet>>

NextQuery ==
    \/ QueryStart
    \/ QueryPrompt
    \/ QueryInput
    \/ QueryEOF

SpecQuery == InitQuery /\ [][NextQuery]_vars

\* --------------------------------------------------------------- monthdelta

IsLeap(yy) == yy % 4 = 0 /\ (yy % 100 # 0 \/ yy % 400 = 0)

\* calendar.monthrange(year, month)[1]
DaysIn(yy, mm) ==
    IF mm = 2 THEN (IF IsLeap(yy) THEN 29 ELSE 28)
    ELSE IF mm \in {4, 6, 9, 11} THEN 30 ELSE 31

Min(a, b) == IF a <= b THEN a ELSE b

\* lines 237, 239: new_m = (m + delta) % 12, and 12 for 0
NewMonth(mm, delta) == IF (mm + delta) % 12 = 0 THEN 12 ELSE (mm + delta) % 12

\* line 238: new_y = y + (m + delta - 1) // 12
NewYear(yy, mm, delta) == yy + ((mm + delta - 1) \div 12)

\* line 240: new_d = min(d, monthrange(y, m)[1]), on the year and month of dt
NewDay(yy, mm, dd) == Min(dd, DaysIn(yy, mm))

\* datetime.replace accepts the date (datetime.MINYEAR = 1, MAXYEAR = 9999)
ValidDate(yy, mm, dd) ==
    /\ yy >= 1
    /\ yy <= 9999
    /\ mm \in 1..12
    /\ dd >= 1
    /\ dd <= DaysIn(yy, mm)

\* the years dt is drawn from: a common year and a leap year
Years == {2023, 2024}

\* monthdelta(dt, delta) called on a valid datetime
InitMonth ==
    /\ \E yy \in Years, mm \in 1..12, hh \in {0, 23} :
           \E dd \in 1..DaysIn(yy, mm) :
               mdDt = Datetime(yy, mm, dd, hh, 30, 59)
    /\ mdDelta \in (-MaxDelta)..MaxDelta
    /\ mdRet = None
    /\ mdPc = "call"
    /\ entry = "monthdelta"
    /\ disk = [p \in FileUniverse |-> Absent]
    /\ disk0 = disk
    /\ path = <<>>
    /\ extensions = <<>>
    /\ recursive = FALSE
    /\ find = None
    /\ replace = None
    /\ outfile = None
    /\ optQuiet = TRUE
    /\ quiet = TRUE
    /\ main_quiet = TRUE
    /\ files = <<>>
    /\ find_ = None
    /\ replace_ = None
    /\ results = <<>>
    /\ i = 0
    /\ content = <<>>
    /\ found = FALSE
    /\ stdout = <<>>
    /\ outfileContent = None
    /\ io = <<>>
    /\ pc = "idle"
    /\ QueryIdle

\* lines 236-241: the new month, year and day; dt.replace returns the datetime
MonthDeltaReturn ==
    /\ mdPc = "call"
    /\ LET new_m == NewMonth(mdDt.month, mdDelta)
           new_y == NewYear(mdDt.year, mdDt.month, mdDelta)
           new_d == NewDay(mdDt.year, mdDt.month, mdDt.day)
       IN /\ ValidDate(new_y, new_m, new_d)
          /\ mdRet' = Some([mdDt EXCEPT !.day = new_d, !.month = new_m, !.year = new_y])
    /\ mdPc' = "returned"
    /\ UNCHANGED <<scanVars, queryVars, mdDt, mdDelta>>

\* line 241: dt.replace raises ValueError (day is out of range for month)
MonthDeltaRaise ==
    /\ mdPc = "call"
    /\ LET new_m == NewMonth(mdDt.month, mdDelta)
           new_y == NewYear(mdDt.year, mdDt.month, mdDelta)
           new_d == NewDay(mdDt.year, mdDt.month, mdDt.day)
       IN ~ValidDate(new_y, new_m, new_d)
    /\ mdPc' = "raised"
    /\ UNCHANGED <<scanVars, queryVars, mdDt, mdDelta, mdRet>>

NextMonth ==
    \/ MonthDeltaReturn
    \/ MonthDeltaRaise

SpecMonth == InitMonth /\ [][NextMonth]_vars

\* ================================================================== claims

Returned == pc \in {"emit", "done"}

Occurrences(fs, f) == Cardinality({k \in 1..Len(fs) : fs[k] = f})

Needle == find_[1]

Replacement == replace_[1]

\* C1: with find = None, find_in_files returns the input list as it is (same
\* entries, same order, duplicates kept) and makes no file-system call: nothing
\* is opened, read or written, and the disk is as it was.
C1_NoNeedleIdentity ==
    (entry = "find_in_files" /\ find_ = None /\ Returned) =>
        /\ results = files
        /\ io = <<>>
        /\ disk = disk0

C1_Witness ==
    /\ entry = "find_in_files"
    /\ find_ = None
    /\ replace_ # None
    /\ pc = "emit"
    /\ files = <<F1, F1>>

\* the entries of fs, in order, whose file's content in d holds needle n
RECURSIVE Holding(_, _, _)
Holding(fs, d, n) ==
    IF fs = <<>> THEN <<>>
    ELSE (IF Contains(n, d[Head(fs)]) THEN <<Head(fs)>> ELSE <<>>)
         \o Holding(Tail(fs), d, n)

\* C2 as claimed: find_in_files returns the entries of the input list whose file
\* held the needle when the scan started, in input order, once per occurrence,
\* with or without a replacement.
C2_AsClaimed ==
    (entry = "find_in_files" /\ find_ # None /\ Returned) =>
        results = Holding(files, disk0, Needle)

\* the content of a file that started as c, after m earlier entries of the list
\* named it and it was rewritten each time it held the needle
RECURSIVE Rewritten(_, _, _, _)
Rewritten(c, n, r, m) ==
    IF m = 0 THEN c
    ELSE Rewritten(IF Contains(n, c) THEN Replace(c, n, r) ELSE c, n, r, m - 1)

ContentWhenRead(k) ==
    LET f == files[k]
        prior == Cardinality({j \in 1..(k - 1) : files[j] = f})
    IN IF replace_ = None THEN disk0[f]
       ELSE Rewritten(disk0[f], Needle, Replacement, prior)

RECURSIVE KeptFrom(_)
KeptFrom(k) ==
    IF k > Len(files) THEN <<>>
    ELSE (IF Contains(Needle, ContentWhenRead(k)) THEN <<files[k]>> ELSE <<>>)
         \o KeptFrom(k + 1)

\* C2 amended: find_in_files returns, in input order and once per occurrence, the
\* entries whose file holds the needle when that entry is read. That is the
\* content at the start of the scan when no replacement is given or the path did
\* not occur earlier in the list; with a replacement, a later occurrence of a
\* path reads the content its earlier occurrences rewrote.
C2_RetainedWhenRead ==
    (entry = "find_in_files" /\ find_ # None /\ Returned) =>
        /\ results = KeptFrom(1)
        /\ (replace_ = None \/ \A f \in Range(files) : Occurrences(files, f) = 1)
               => results = Holding(files, disk0, Needle)

C2_Witness ==
    /\ entry = "find_in_files"
    /\ pc = "emit"
    /\ find_ # None
    /\ replace_ # None
    /\ files = <<F1, F1>>
    /\ Contains(Needle, disk0[F1])
    /\ results = <<F1>>

RECURSIVE CountFrom(_, _, _)
CountFrom(c, n, at) ==
    IF at > Len(c) THEN 0
    ELSE IF OccursAt(n, c, at) THEN 1 + CountFrom(c, n, at + Len(n))
    ELSE CountFrom(c, n, at + 1)

\* how many times content c holds needle n, counted as bytes.count does: without
\* overlap, and Len + 1 times for the empty needle
Count(c, n) == IF n = <<>> THEN Len(c) + 1 ELSE CountFrom(c, n, 1)

SharesByte(n, r) == Range(n) \cap Range(r) # {}

\* file f was listed once and held the needle, and the pass (find = N,
\* replace = R # N, both at least one byte long) returned
RewrittenOnce(f) ==
    /\ entry = "find_in_files"
    /\ pc \in {"emit", "done"}
    /\ find_ # None
    /\ replace_ # None
    /\ Replacement # Needle
    /\ Needle # <<>>
    /\ Replacement # <<>>
    /\ Occurrences(files, f) = 1
    /\ Count(disk0[f], Needle) >= 1

\* the same for any needle and replacement, empty ones too
RewrittenAnyOnce(f) ==
    /\ entry = "find_in_files"
    /\ pc \in {"emit", "done"}
    /\ find_ # None
    /\ replace_ # None
    /\ Replacement # Needle
    /\ Occurrences(files, f) = 1
    /\ Count(disk0[f], Needle) >= 1

Failed == \E k \in 1..Len(io) : io[k].op = "OSError"

\* C6: an I/O error on the i-th file ends the scan there: the exception leaves
\* find_in_files, no later entry is opened, read or written, files named only by
\* later entries keep their content, earlier matches stay rewritten when a
\* replacement is given, and nothing is printed or written to the output file.
C6_AbortAtFirstError ==
    (entry = "find_in_files" /\ Failed) =>
        /\ pc = "raised"
        /\ io[Len(io)].op = "OSError"
        /\ \A k \in 1..(Len(io) - 1) : io[k].op # "OSError"
        /\ \A k \in 1..Len(io) : io[k].file \in {files[j] : j \in 1..i}
        /\ \A f \in FileUniverse :
               f \notin {files[j] : j \in 1..i} => disk[f] = disk0[f]
        /\ \A j \in 1..(i - 1) :
               (/\ files[j] # files[i]
                /\ Occurrences(files, files[j]) = 1
                /\ replace_ # None
                /\ Contains(Needle, disk0[files[j]]))
                   => disk[files[j]] = Replace(disk0[files[j]], Needle, Replacement)
        /\ stdout = <<>>
        /\ outfileContent = None

C6_Witness ==
    /\ entry = "find_in_files"
    /\ pc = "raised"
    /\ files = <<F1, F2>>
    /\ i = 2
    /\ outfile # None
    /\ disk[F1] # disk0[F1]
    /\ disk[F2] = disk0[F2]

Scanning == entry \in {"main", "scan_files"}

Enumerated == pc \in {"find", "open", "write", "emit", "done"}

FileIO == {"glob", "open r+b", "read", "open w+b", "write"}

\* C5 as claimed: a scan whose root path is no directory fails with an
\* invalid-path error before any glob, file read, file write or result output,
\* from the command line and from scan_files itself.
C5_AsClaimed ==
    (Scanning /\ ~IsDir(path)) =>
        /\ pc \in {"main", "scan", "raised"}
        /\ \A k \in 1..Len(io) : io[k].op \notin FileIO
        /\ \A k \in 1..Len(stdout) : stdout[k].kind \notin {"result", "printed to"}
        /\ outfileContent = None

\* the files of the tree the scan of `path` covers: its children, or with
\* recursive every file below it
InScope(p) ==
    /\ disk0[p] # Absent
    /\ IF recursive THEN Len(p) > Len(path) /\ IsPrefix(path, p)
       ELSE Len(p) > 0 /\ Parent(p) = path

\* C7 as claimed: with the extension `*` and no find string the scan returns
\* every file in its scope, whatever its name, with an extension or without.
C7_AsClaimed ==
    (Scanning /\ pc = "done" /\ IsDir(path) /\ extensions = << <<"*">> >> /\ find = None) =>
        \A p \in FileUniverse : InScope(p) => p \in Range(results)

MatchesSome(name) == \E k \in 1..Len(extensions) : Match(Pattern(extensions[k]), name)

PresentEntry(p) == p \in Dirs \/ (p \in FileUniverse /\ disk0[p] # Absent)

Below(p) ==
    IF recursive THEN Len(p) > Len(path) /\ IsPrefix(path, p)
    ELSE Len(p) > 0 /\ Parent(p) = path

\* C8 as claimed: without recursive the scan enumerates exactly the children of
\* the root whose name matches *.<ext> for an extension of the list, and with
\* recursive exactly the descendants of the root that match, at every depth.
C8_AsClaimed ==
    (Scanning /\ Enumerated) =>
        Range(files) =
            {p \in Dirs \cup FileUniverse :
                 PresentEntry(p) /\ Below(p) /\ MatchesSome(Name(p))}

\* C8 amended: the same, for the entries glob can see: those whose name does not
\* begin with a period and, with recursive, that are not below a directory whose
\* name begins with a period. Nothing from a subdirectory is enumerated without
\* recursive.
C8_EnumeratesVisible ==
    (Scanning /\ Enumerated) =>
        /\ Range(files) =
               {p \in Dirs \cup FileUniverse :
                    /\ PresentEntry(p)
                    /\ Below(p)
                    /\ MatchesSome(Name(p))
                    /\ \A k \in (Len(path) + 1)..Len(p) : ~IsHidden(p[k])}
        /\ ~recursive => \A k \in 1..Len(files) : Parent(files[k]) = path

C8_Witness ==
    /\ Scanning
    /\ pc = "find"
    /\ recursive
    /\ path = <<>>
    /\ extensions = << <<"t">> >>
    /\ disk0[<<NameH>>] # Absent
    /\ disk0[<<DirG, NameA>>] # Absent
    /\ disk0[<<NameA>>] # Absent
    /\ disk0[<<DirS, NameB>>] # Absent
    /\ Range(files) = {<<NameA>>, SPath(MaxDepth) \o <<NameA>>}

MyPrinted == {stdout[k] : k \in {j \in 1..Len(stdout) : stdout[j].kind \in {"scanning", "found", "contain"}}}

\* C9 as claimed: run from the command line, the scan's messages are suppressed
\* when --quiet is given and printed when it is not.
C9_AsClaimed ==
    (entry = "main" /\ pc = "done") =>
        /\ optQuiet => MyPrinted = {}
        /\ ~optQuiet => \E m \in MyPrinted : m.kind = "scanning"

UpperOf(c) ==
    CASE c = "y" -> "Y"
      [] c = "e" -> "E"
      [] c = "s" -> "S"
      [] c = "n" -> "N"
      [] c = "o" -> "O"

\* line spells word, in any mix of upper and lower case
Spells(line, word) ==
    /\ Len(line) = Len(word)
    /\ \A k \in 1..Len(word) : line[k] \in {word[k], UpperOf(word[k])}

SaysYes(line) == \E w \in {WordYes, WordYe, WordY} : Spells(line, w)

SaysNo(line) == \E w \in {WordNo, WordN} : Spells(line, w)

IsAnswer(line, default) ==
    \/ SaysYes(line)
    \/ SaysNo(line)
    \/ line = <<>> /\ default \in {Some(WordYes), Some(WordNo)}

AnswerValue(line, default) ==
    IF line = <<>> THEN default = Some(WordYes) ELSE SaysYes(line)

Prompts == Cardinality({k \in 1..Len(qOut) : qOut[k] = "prompt"})

\* C10: query_yes_no returns only at the first line that is an answer: yes, ye or
\* y in any case give True, no or n give False, and an empty line gives the
\* default's value when the default is "yes" or "no". Every line before it was
\* no answer and was followed by a new prompt. A default other than "yes", "no"
\* or None raises ValueError before anything is written.
C10_ReturnsAtFirstAnswer ==
    entry = "query_yes_no" =>
        /\ \A k \in 1..qRead : k < qRead => ~IsAnswer(qInputs[k], qDefault)
        /\ qPc = "returned" =>
               /\ qRead >= 1
               /\ IsAnswer(qInputs[qRead], qDefault)
               /\ qRet = Some(AnswerValue(qInputs[qRead], qDefault))
               /\ Prompts = qRead
        /\ (qPc # "returned" /\ qRead >= 1) =>
               /\ ~IsAnswer(qInputs[qRead], qDefault)
               /\ qRet = None
               /\ Prompts = qRead + (IF qPc = "prompt" THEN 0 ELSE 1)
        /\ qDefault \notin {None, Some(WordYes), Some(WordNo)} =>
               /\ qPc \in {"start", "raised"}
               /\ Prompts = 0
               /\ qRead = 0
               /\ qRet = None
               /\ qPc = "raised" => qOut = <<"ValueError">>

C10_Witness ==
    /\ entry = "query_yes_no"
    /\ qPc = "returned"
    /\ qDefault = Some(WordNo)
    /\ qRead = 2
    /\ qInputs = << <<"x">>, <<"Y", "E">> >>
    /\ qRet = Some(TRUE)

MonthIndex(dt) == 12 * dt.year + (dt.month - 1)

\* C11: for a valid datetime dt and any delta, positive, negative or zero,
\* monthdelta returns without error a valid date delta months from dt:
\* 12 * year + (month - 1) has grown by delta, the day is dt's day limited to
\* the length of the resulting month, and hour, minute and second are dt's.
C11_AsClaimed ==
    (entry = "monthdelta" /\ mdPc # "call") =>
        /\ mdPc = "returned"
        /\ mdRet # None
        /\ LET r == mdRet[1]
           IN /\ MonthIndex(r) = MonthIndex(mdDt) + mdDelta
              /\ r.month \in 1..12
              /\ r.day = Min(mdDt.day, DaysIn(r.year, r.month))
              /\ r.hour = mdDt.hour
              /\ r.minute = mdDt.minute
              /\ r.second = mdDt.second

====
